---- MODULE Spec2Model ----
(***************************************************************************)
(* A model of the two scripts of the repository.                           *)
(*                                                                         *)
(*   scripts/check_braces.py     the brace-balance scanner: a forward      *)
(*                               balance pass over the lines of a file, a  *)
(*                               summary, and (for a positive balance) a   *)
(*                               replay with a stack of opener lines and a *)
(*                               context window around each reported one.  *)
(*   tmp_patch_routeprefetch.py  three find-and-replace steps on one file. *)
(*                                                                         *)
(* A line is a sequence of one-character strings; a document is a sequence *)
(* of lines (the value of `lines` after text.splitlines()).                *)
(***************************************************************************)
EXTENDS Integers, Sequences, FiniteSets, TLC

\* check_braces.py
VARIABLES lines, pc, i, k, balance, first_negative, negatives,
          out_first, out_negatives, stack, reported, ci, windows
\* tmp_patch_routeprefetch.py
VARIABLES file, file_at_start, linesep, patch_pc, patch_exit, writes

scanVars == <<lines, pc, i, k, balance, first_negative, negatives,
              out_first, out_negatives, stack, reported, ci, windows>>
patchVars == <<file, file_at_start, linesep, patch_pc, patch_exit, writes>>
vars == <<scanVars, patchVars>>

(***************************************************************************)
(* Bounds of the checked inputs.                                           *)
(***************************************************************************)
\* Short documents: at most MaxLines lines holding at most MaxChars characters in all.
MaxLines == 3
MaxChars == 4
\* Long documents: three runs of one-character lines, the outer two of at most
\* MaxEdge lines and the middle one of at most MaxRun lines.
MaxEdge == 2
MaxRun == 21

(***************************************************************************)
(* Program constants of check_braces.py.                                   *)
(***************************************************************************)
NegativesShown == 20
OpenersShown == 10
ContextRadius == 3

Chars == {"{", "}", " "}

Min(a, b) == IF a < b THEN a ELSE b
Max(a, b) == IF a > b THEN a ELSE b

\* None, and a set optional, as sequences of length 0 and 1.
None == <<>>
Some(x) == <<x>>

(***************************************************************************)
(* The input documents.                                                    *)
(***************************************************************************)
LinesUpTo(n) == UNION {[1..m -> Chars] : m \in 0..n}

RECURSIVE DocsWith(_, _)
DocsWith(c, n) ==
    IF n = 0 THEN {<<>>}
    ELSE {<<>>} \cup
         UNION {{<<l>> \o d : d \in DocsWith(c - Len(l), n - 1)} : l \in LinesUpTo(c)}

ShortDocs == DocsWith(MaxChars, MaxLines)

Rep(l, n) == [t \in 1..n |-> l]

LongDocs ==
    {Rep(<<a>>, m) \o Rep(<<b>>, n) \o Rep(<<c>>, q) :
        a \in Chars, b \in Chars, c \in Chars,
        m \in 0..MaxEdge, n \in 0..MaxRun, q \in 0..MaxEdge}

(***************************************************************************)
(* check_braces.py, helpers.                                               *)
(***************************************************************************)
\* Lines 18-21: the effect of one character on the balance.
\* (DeltaElse is the faulty variant with `else` for `elif ch == '}'`.)
DeltaElse(ch) == IF ch = "{" THEN 1 ELSE -1
Delta(ch) == IF ch = "{" THEN 1 ELSE IF ch = "}" THEN -1 ELSE 0

\* str.strip() on the modelled alphabet: leading and trailing blanks removed.
RECURSIVE LStrip(_)
LStrip(s) == IF s # <<>> /\ Head(s) = " " THEN LStrip(Tail(s)) ELSE s

RECURSIVE RStrip(_)
RStrip(s) ==
    IF s # <<>> /\ s[Len(s)] = " " THEN RStrip(SubSeq(s, 1, Len(s) - 1)) ELSE s

Strip(s) == RStrip(LStrip(s))

\* Lines 22-23.
\* (NextFirstNegativeOverwrite is the faulty variant without `is None`.)
NextFirstNegativeOverwrite(fn, bal, ln) == IF bal < 0 THEN Some(ln) ELSE fn
NextFirstNegative(fn, bal, ln) == IF bal < 0 /\ fn = None THEN Some(ln) ELSE fn

\* Lines 24-25.
\* (NextNegativesOnlyFirst is the faulty variant that records the first only.)
NextNegativesOnlyFirst(negs, bal, ln, line) ==
    IF bal < 0 /\ negs = <<>> THEN Append(negs, <<ln, bal, Strip(line)>>) ELSE negs
NextNegatives(negs, bal, ln, line) ==
    IF bal < 0 THEN Append(negs, <<ln, bal, Strip(line)>>) ELSE negs

\* Line 28: `if first_negative:` is the truth value of None or of an integer.
Truthy(fn) == fn # None /\ fn[1] # 0

\* Line 32: negatives[:20].  (ShownLast is the faulty variant negatives[-20:].)
ShownLast(negs) ==
    SubSeq(negs, Max(1, Len(negs) - NegativesShown + 1), Len(negs))
Shown(negs) == SubSeq(negs, 1, Min(NegativesShown, Len(negs)))

\* Line 35.  (RunReplayNonZero is the faulty variant `if balance != 0`.)
RunReplayNonZero(bal) == bal # 0
RunReplay(bal) == bal > 0

\* Lines 40-44: the effect of one character of line ln on the stack.
\* (Faulty variants: StackStepPushAny pushes on every character but '}',
\* StackStepNoPop never pops, StackStepPopOldest pops the bottom entry.)
StackStepPushAny(st, ch, ln) ==
    IF ch # "}" THEN Append(st, ln)
    ELSE IF st # <<>> THEN SubSeq(st, 1, Len(st) - 1) ELSE st
StackStepNoPop(st, ch, ln) == IF ch = "{" THEN Append(st, ln) ELSE st
StackStepPopOldest(st, ch, ln) ==
    IF ch = "{" THEN Append(st, ln)
    ELSE IF ch = "}" /\ st # <<>> THEN Tail(st) ELSE st
StackStep(st, ch, ln) ==
    IF ch = "{" THEN Append(st, ln)
    ELSE IF ch = "}" /\ st # <<>> THEN SubSeq(st, 1, Len(st) - 1)
    ELSE st

\* Line 47: stack[-10:].
Top10(st) == SubSeq(st, Max(1, Len(st) - OpenersShown + 1), Len(st))

\* Lines 48-49.  (WinStartUnclamped is the faulty variant without max(1, ...).)
WinStartUnclamped(ln) == ln - ContextRadius
WinStart(ln) == Max(1, ln - ContextRadius)
WinEnd(ln, n) == Min(n, ln + ContextRadius)

\* Line 52.
Prefix(j, ln) == IF j = ln THEN ">" ELSE " "

\* Line 53: lines[j-1] as Python indexes a list (a negative index counts from
\* the end; an index outside -len..len-1 raises IndexError).
IndexError == <<"IndexError">>
LineAt(ls, j) ==
    IF 1 <= j /\ j <= Len(ls) THEN ls[j]
    ELSE IF j <= 0 /\ j + Len(ls) >= 1 THEN ls[j + Len(ls)]
    ELSE IndexError

\* Lines 48-53: what is printed for one reported line.
Window(ls, ln) ==
    LET start == WinStart(ln)
        end == WinEnd(ln, Len(ls))
    IN  [ln |-> ln,
         rows |-> [t \in 1..(end - start + 1) |->
                     <<Prefix(start + t - 1, ln), start + t - 1,
                       LineAt(ls, start + t - 1)>>]]

(***************************************************************************)
(* check_braces.py, the script.  i is the line the loop is at (Len(lines)+1 *)
(* once the loop is exhausted) and k the characters of it already read.    *)
(***************************************************************************)
\* The patch script is not running.
PatchIdle ==
    /\ file = <<>>
    /\ file_at_start = <<>>
    /\ linesep = <<"\n">>
    /\ patch_pc = "idle"
    /\ patch_exit = ""
    /\ writes = 0

InitWith(docs) ==
    /\ lines \in docs
    /\ pc = "forward"
    /\ i = 1
    /\ k = 0
    /\ balance = 0
    /\ first_negative = None
    /\ negatives = <<>>
    /\ out_first = None
    /\ out_negatives = <<>>
    /\ stack = <<>>
    /\ reported = <<>>
    /\ ci = 0
    /\ windows = <<>>
    /\ PatchIdle

Init == InitWith(ShortDocs)
InitLong == InitWith(LongDocs)

\* Lines 17-21: one character of the forward pass.
ForwardChar ==
    /\ pc = "forward"
    /\ i <= Len(lines)
    /\ k < Len(lines[i])
    /\ balance' = balance + Delta(lines[i][k + 1])
    /\ k' = k + 1
    /\ UNCHANGED patchVars
    /\ UNCHANGED <<lines, pc, i, first_negative, negatives, out_first,
                   out_negatives, stack, reported, ci, windows>>

\* Lines 22-25: the end of a line of the forward pass.
ForwardEndLine ==
    /\ pc = "forward"
    /\ i <= Len(lines)
    /\ k = Len(lines[i])
    /\ first_negative' = NextFirstNegative(first_negative, balance, i)
    /\ negatives' = NextNegatives(negatives, balance, i, lines[i])
    /\ i' = i + 1
    /\ k' = 0
    /\ UNCHANGED patchVars
    /\ UNCHANGED <<lines, pc, balance, out_first, out_negatives, stack,
                   reported, ci, windows>>

\* Lines 27-37: the summary, and the decision to replay.
Report ==
    /\ pc = "forward"
    /\ i = Len(lines) + 1
    /\ out_first' = IF Truthy(first_negative) THEN first_negative ELSE None
    /\ out_negatives' = Shown(negatives)
    /\ IF RunReplay(balance)
       THEN pc' = "replay" /\ i' = 1 /\ k' = 0
       ELSE pc' = "done" /\ UNCHANGED <<i, k>>
    /\ UNCHANGED patchVars
    /\ UNCHANGED <<lines, balance, first_negative, negatives, stack, reported,
                   ci, windows>>

\* Lines 39-44: one character of the replay pass.
ReplayChar ==
    /\ pc = "replay"
    /\ i <= Len(lines)
    /\ k < Len(lines[i])
    /\ stack' = StackStep(stack, lines[i][k + 1], i)
    /\ k' = k + 1
    /\ UNCHANGED patchVars
    /\ UNCHANGED <<lines, pc, i, balance, first_negative, negatives, out_first,
                   out_negatives, reported, ci, windows>>

\* Line 38: the replay pass moves to the next line.
ReplayEndLine ==
    /\ pc = "replay"
    /\ i <= Len(lines)
    /\ k = Len(lines[i])
    /\ i' = i + 1
    /\ k' = 0
    /\ UNCHANGED patchVars
    /\ UNCHANGED <<lines, pc, balance, first_negative, negatives, out_first,
                   out_negatives, stack, reported, ci, windows>>

\* Lines 45-47: the replay is over; the openers to report are chosen.
ReplayEnd ==
    /\ pc = "replay"
    /\ i = Len(lines) + 1
    /\ reported' = Top10(stack)
    /\ ci' = 1
    /\ pc' = "context"
    /\ UNCHANGED patchVars
    /\ UNCHANGED <<lines, i, k, balance, first_negative, negatives, out_first,
                   out_negatives, stack, windows>>

\* Lines 47-53: the context window of one reported opener.
Context ==
    /\ pc = "context"
    /\ ci <= Len(reported)
    /\ windows' = Append(windows, Window(lines, reported[ci]))
    /\ ci' = ci + 1
    /\ UNCHANGED patchVars
    /\ UNCHANGED <<lines, pc, i, k, balance, first_negative, negatives,
                   out_first, out_negatives, stack, reported>>

\* Line 47: the loop over the reported openers is exhausted.
Finish ==
    /\ pc = "context"
    /\ ci = Len(reported) + 1
    /\ pc' = "done"
    /\ UNCHANGED patchVars
    /\ UNCHANGED <<lines, i, k, balance, first_negative, negatives, out_first,
                   out_negatives, stack, reported, ci, windows>>

Next ==
    \/ ForwardChar
    \/ ForwardEndLine
    \/ Report
    \/ ReplayChar
    \/ ReplayEndLine
    \/ ReplayEnd
    \/ Context
    \/ Finish

Spec == Init /\ [][Next]_vars
SpecLong == InitLong /\ [][Next]_vars
SpecAll == InitWith(ShortDocs \cup LongDocs) /\ [][Next]_vars

(***************************************************************************)
(* tmp_patch_routeprefetch.py.  A text is a sequence of tokens: "\r" and   *)
(* "\n" are the two line-end characters, and a letter stands for a stretch *)
(* of the text of one of the script's literals between two line ends:      *)
(*   w  const w = window as W; ... let idleId: number | undefined;         *)
(*   t  let timeoutId: number | undefined;                                 *)
(*   c  let controller: AbortController | null = null;                     *)
(*   d  // Deduplicate and prefetch the q-data ...                         *)
(*   o  const controller = new AbortController(); ... (the old body)       *)
(*   r  return () => controller.abort();                                   *)
(*   n  controller?.abort(); controller = new ...  (the new body)          *)
(*   p  await Promise.all(list.map(prefetchOne));                          *)
(*   f  if (timeoutId !== undefined) clearTimeout(timeoutId);              *)
(*   a  controller?.abort();   (of the cleanup)                            *)
(*   e  };                                                                 *)
(*   x  any other text                                                     *)
(***************************************************************************)
\* The most blocks a checked file is made of.
MaxBlocks == 4

CRLF == <<"\r", "\n">>

\* Lines 4-5.
needle == <<"w">> \o CRLF \o <<"t">>
replacement == <<"w">> \o CRLF \o <<"t">> \o CRLF \o <<"c">>
\* Lines 9-10.
old == <<"d">> \o CRLF \o <<"o">> \o CRLF \o <<"r">>
new == <<"d">> \o CRLF \o <<"n">> \o CRLF \o <<"p">>
\* Lines 14-15.
cleanup_old == <<"f">> \o CRLF \o <<"e">>
cleanup_new == <<"f">> \o CRLF \o <<"a">> \o CRLF \o <<"e">>

\* The same text with "\n" line ends.
Unix(text) == SelectSeq(text, LAMBDA ch : ch # "\r")

Blocks ==
    {needle, old, cleanup_old, Unix(needle), Unix(old), Unix(cleanup_old),
     <<"x">>, <<"\r">>, <<"\n">>}

RECURSIVE FilesOf(_)
FilesOf(n) ==
    IF n = 0 THEN {<<>>}
    ELSE LET F == FilesOf(n - 1) IN F \cup {b \o g : b \in Blocks, g \in F}

\* Line 3: Path.read_text() opens the file in text mode with newline=None, so
\* "\r\n" and a lone "\r" are both read as "\n".
RECURSIVE ReadText(_)
ReadText(bytes) ==
    IF bytes = <<>> THEN <<>>
    ELSE IF Head(bytes) = "\r"
         THEN IF Len(bytes) >= 2 /\ bytes[2] = "\n"
              THEN <<"\n">> \o ReadText(SubSeq(bytes, 3, Len(bytes)))
              ELSE <<"\n">> \o ReadText(Tail(bytes))
         ELSE <<Head(bytes)>> \o ReadText(Tail(bytes))

\* Line 19: Path.write_text() writes each "\n" as os.linesep.
RECURSIVE WriteText(_, _)
WriteText(text, sep) ==
    IF text = <<>> THEN <<>>
    ELSE (IF Head(text) = "\n" THEN sep ELSE <<Head(text)>>)
         \o WriteText(Tail(text), sep)

\* Lines 6, 11, 16: `pat in text`.
StartsAt(text, pat, at) ==
    at + Len(pat) - 1 <= Len(text) /\ SubSeq(text, at, at + Len(pat) - 1) = pat
Contains(text, pat) == \E at \in 1..Len(text) : StartsAt(text, pat, at)

\* Lines 8, 13, 18: text.replace(pat, rep, 1).
ReplaceFirst(text, pat, rep) ==
    IF ~Contains(text, pat) THEN text
    ELSE LET at == CHOOSE a \in 1..Len(text) :
                     /\ StartsAt(text, pat, a)
                     /\ \A b \in 1..(a - 1) : ~StartsAt(text, pat, b)
         IN  SubSeq(text, 1, at - 1) \o rep
             \o SubSeq(text, at + Len(pat), Len(text))

Exit(status, bytes, n) == [exit |-> status, file |-> bytes, writes |-> n]

\* Lines 3-19: one run of the script on a file holding `bytes`.
PatchScript(bytes, sep) ==
    LET t0 == ReadText(bytes)
        t1 == ReplaceFirst(t0, needle, replacement)
        t2 == ReplaceFirst(t1, old, new)
        t3 == ReplaceFirst(t2, cleanup_old, cleanup_new)
    IN  IF ~Contains(t0, needle) THEN Exit("needle not found", bytes, 0)
        ELSE IF ~Contains(t1, old) THEN Exit("old block not found", bytes, 0)
        ELSE IF ~Contains(t2, cleanup_old) THEN Exit("cleanup not found", bytes, 0)
        ELSE Exit("ok", WriteText(t3, sep), 1)

\* The brace scanner is not running.
ScanIdle ==
    /\ lines = <<>>
    /\ pc = "idle"
    /\ i = 0
    /\ k = 0
    /\ balance = 0
    /\ first_negative = None
    /\ negatives = <<>>
    /\ out_first = None
    /\ out_negatives = <<>>
    /\ stack = <<>>
    /\ reported = <<>>
    /\ ci = 0
    /\ windows = <<>>

InitPatch ==
    /\ file \in FilesOf(MaxBlocks)
    /\ file_at_start = file
    /\ linesep \in {<<"\n">>, CRLF}
    /\ patch_pc = "start"
    /\ patch_exit = ""
    /\ writes = 0
    /\ ScanIdle

RunPatch ==
    /\ patch_pc = "start"
    /\ LET run == PatchScript(file, linesep)
       IN  /\ file' = run.file
           /\ patch_exit' = run.exit
           /\ writes' = writes + run.writes
    /\ patch_pc' = "exited"
    /\ UNCHANGED <<file_at_start, linesep>>
    /\ UNCHANGED scanVars

NextPatch == RunPatch

SpecPatch == InitPatch /\ [][NextPatch]_vars

(***************************************************************************)
(* Reference definitions, computed from the document alone.  S is the      *)
(* character stream of the document.                                       *)
(***************************************************************************)
\* The characters of the first n lines, each with the number of its line.
RECURSIVE FlatTo(_, _)
FlatTo(ls, n) ==
    IF n = 0 THEN <<>>
    ELSE FlatTo(ls, n - 1) \o [t \in 1..Len(ls[n]) |-> [ch |-> ls[n][t], ln |-> n]]

Stream == FlatTo(lines, Len(lines))

\* How many of the first n characters are c.
CountOf(S, c, n) == Cardinality({p \in 1..n : S[p].ch = c})

\* Opens minus closes among the first n characters.
RunningBalance(S, n) == CountOf(S, "{", n) - CountOf(S, "}", n)

\* Opens minus closes among the characters p..q.
Between(S, p, q) == RunningBalance(S, q) - RunningBalance(S, p - 1)

\* The number of characters in the first l lines, and the balance after them.
CharsUpTo(S, l) == Cardinality({p \in 1..Len(S) : S[p].ln <= l})
EndBalance(S, l) == RunningBalance(S, CharsUpTo(S, l))

\* The lines among the first n whose end-of-line balance is negative.
NegativeLines(S, n) == {l \in 1..n : EndBalance(S, l) < 0}

SetMin(T) == CHOOSE x \in T : \A y \in T : x <= y

\* The lowest running balance over the prefixes of the first n characters.
Lowest(S, n) == SetMin({RunningBalance(S, m) : m \in 0..n})

\* Nested matching: a '{' is unmatched when every stretch of the document that
\* starts with it holds more opens than closes; a '}' is stray when every stretch
\* of the document that ends with it holds more closes than opens.
UnmatchedOpeners(S) ==
    {p \in 1..Len(S) : S[p].ch = "{" /\ \A q \in p..Len(S) : Between(S, p, q) >= 1}

StrayClosers(S, n) ==
    {q \in 1..n : S[q].ch = "}" /\ \A p \in 1..q : Between(S, p, q) <= -1}

\* The lines the running pass has finished, and the characters it has read.
LinesDone == IF i <= Len(lines) THEN i - 1 ELSE Len(lines)
CharsRead(S) == CharsUpTo(S, LinesDone) + (IF i <= Len(lines) THEN k ELSE 0)

ForwardOver == pc # "forward"
ReplayOver == pc \in {"context", "done"} /\ balance > 0

(***************************************************************************)
(* Claims about check_braces.py.                                           *)
(***************************************************************************)
\* C1: at every point of the forward pass the balance is the number of '{'
\* minus the number of '}' among the characters read so far, so the final
\* balance is opens minus closes over the whole document and no other
\* character changes it.
C1_FinalBalance ==
    LET S == Stream
    IN  /\ pc = "forward" => balance = RunningBalance(S, CharsRead(S))
        /\ ForwardOver =>
             balance = CountOf(S, "{", Len(S)) - CountOf(S, "}", Len(S))

C1_Witness ==
    LET S == Stream
    IN  /\ pc = "done"
        /\ CountOf(S, " ", Len(S)) > 0
        /\ CountOf(S, "{", Len(S)) > CountOf(S, "}", Len(S))
        /\ CountOf(S, "}", Len(S)) > 0
        /\ balance = CountOf(S, "{", Len(S)) - CountOf(S, "}", Len(S))

\* C2 as stated: with a positive final balance, the stack left by the full
\* replay has as many entries as the final balance.
C2_StackSizeIsBalance == ReplayOver => Len(stack) = balance

\* C2 as amended: with a positive final balance, the stack left by the full
\* replay has as many entries as the final balance when the running balance
\* never falls below zero at any character, and more entries otherwise.
C2_StackSizeAmended ==
    ReplayOver =>
        LET S == Stream
            low == Lowest(S, Len(S))
        IN  /\ low >= 0 => Len(stack) = balance
            /\ low < 0 => Len(stack) > balance

C2_Witness ==
    /\ pc = "done"
    /\ balance > 0
    /\ Lowest(Stream, Len(Stream)) < 0
    /\ Len(stack) > balance

\* C3: first_negative, once set to L, names a line whose end-of-line balance is
\* negative with no negative end-of-line balance before it; it is set as soon
\* as a finished line has a negative end-of-line balance, and a later negative
\* line does not change it.
C3_FirstNegative ==
    LET S == Stream
        done == IF pc = "forward" THEN LinesDone ELSE Len(lines)
    IN  /\ first_negative # None =>
             /\ first_negative[1] \in 1..done
             /\ EndBalance(S, first_negative[1]) < 0
             /\ \A l \in 1..(first_negative[1] - 1) : EndBalance(S, l) >= 0
        /\ NegativeLines(S, done) # {} => first_negative # None

C3_Witness ==
    /\ pc = "done"
    /\ first_negative # None
    /\ first_negative[1] > 1
    /\ \E l \in NegativeLines(Stream, Len(lines)) : l > first_negative[1]

\* C4: the negatives list holds one entry for each finished line whose
\* end-of-line balance is negative and none for any other line, in increasing
\* line order, each with the line's number, its end-of-line balance and its
\* stripped text, whatever the final balance is.
C4_Negatives ==
    LET S == Stream
        done == IF pc = "forward" THEN LinesDone ELSE Len(lines)
        neg == NegativeLines(S, done)
    IN  /\ Len(negatives) = Cardinality(neg)
        /\ \A t \in 1..Len(negatives) :
             /\ negatives[t][1] \in neg
             /\ negatives[t][2] = EndBalance(S, negatives[t][1])
             /\ negatives[t][3] = Strip(lines[negatives[t][1]])
             /\ t > 1 => negatives[t - 1][1] < negatives[t][1]

C4_Witness ==
    /\ pc = "done"
    /\ balance >= 0
    /\ Len(negatives) >= 2
    /\ Len(negatives) < Len(lines)

\* C5: the reported negative events are the first min(20, count) lines with a
\* negative end-of-line balance, in line order; the final balance and
\* first_negative are exact, and first_negative is the line of the first
\* reported entry.
C5_Truncation ==
    ForwardOver =>
        LET S == Stream
            neg == NegativeLines(S, Len(lines))
        IN  /\ Len(out_negatives) <= 20
            /\ Len(out_negatives) = Min(20, Cardinality(neg))
            /\ \A t \in 1..Len(out_negatives) :
                 /\ out_negatives[t][1] \in neg
                 /\ Cardinality({l \in neg : l <= out_negatives[t][1]}) = t
                 /\ out_negatives[t][2] = EndBalance(S, out_negatives[t][1])
            /\ balance = RunningBalance(S, Len(S))
            /\ first_negative = (IF neg = {} THEN None ELSE Some(SetMin(neg)))
            /\ out_first = first_negative
            /\ out_negatives # <<>> => first_negative = Some(out_negatives[1][1])

C5_Witness ==
    /\ pc = "done"
    /\ Len(negatives) > 20
    /\ Cardinality(NegativeLines(Stream, Len(lines))) > 20
    /\ Len(out_negatives) = 20
    /\ first_negative[1] > 1
    /\ out_negatives[20][1] < negatives[Len(negatives)][1]

\* C6: after the full replay the stack holds, bottom to top, the line numbers
\* of the '{' left unmatched by nested matching, in document order, and the
\* reported openers are its last min(10, size) entries in the same order.
C6_UnmatchedOpeners ==
    ReplayOver =>
        LET S == Stream
            open == UnmatchedOpeners(S)
        IN  /\ Len(stack) = Cardinality(open)
            /\ \A p \in open :
                 stack[Cardinality({q \in open : q <= p})] = S[p].ln
            /\ Len(reported) = Min(10, Len(stack))
            /\ \A t \in 1..Len(reported) :
                 reported[t] = stack[Len(stack) - Len(reported) + t]

C6_Witness ==
    /\ pc = "done"
    /\ Len(stack) > 10
    /\ Len(reported) = 10
    /\ LET S == Stream
       IN  /\ StrayClosers(S, Len(S)) # {}
           /\ \E p \in 1..Len(S) : S[p].ch = "{" /\ p \notin UnmatchedOpeners(S)

\* C7: a step into or within the replay is taken only with the whole document
\* read by the forward pass and a final balance above zero; with a final
\* balance of zero or less the script ends with no stack, no reported opener
\* and no context window.
C7_ReplayOnlyWhenPositive ==
    /\ [][(pc' \in {"replay", "context"} \/ stack' # stack
             \/ reported' # reported \/ windows' # windows)
           => (balance > 0 /\ balance = RunningBalance(Stream, Len(Stream))
               /\ balance' = balance
               /\ (pc = "forward" => i = Len(lines) + 1))]_vars
    /\ []((pc = "done" /\ balance <= 0)
           => (stack = <<>> /\ reported = <<>> /\ windows = <<>>))

C7_Witness ==
    /\ pc = "done"
    /\ lines = <<<<"}">>, <<"}">>, <<"{">>>>
    /\ balance <= 0
    /\ UnmatchedOpeners(Stream) # {}
    /\ stack = <<>>
    /\ reported = <<>>

\* C8: the context window of a reported line L of a document of N lines is the
\* lines max(1, L-3)..min(N, L+3) in order: every row is a line of the
\* document, L is among them, there are at most 7, and '>' marks L alone.
C8_ContextWindow ==
    \A w \in 1..Len(windows) :
        LET L == windows[w].ln
            rows == windows[w].rows
            N == Len(lines)
            lo == IF L - 3 < 1 THEN 1 ELSE L - 3
            hi == IF L + 3 > N THEN N ELSE L + 3
        IN  /\ L = reported[w]
            /\ Len(rows) = hi - lo + 1
            /\ Len(rows) <= 7
            /\ \E t \in 1..Len(rows) : rows[t][2] = L
            /\ \A t \in 1..Len(rows) :
                 /\ rows[t][2] = lo + t - 1
                 /\ 1 <= rows[t][2] /\ rows[t][2] <= N
                 /\ rows[t][3] = lines[rows[t][2]]
                 /\ (rows[t][1] = ">") <=> (rows[t][2] = L)
                 /\ rows[t][1] \in {">", " "}

C8_Witness ==
    /\ pc = "done"
    /\ \E w \in 1..Len(windows) : Len(windows[w].rows) = 7
    /\ \E w \in 1..Len(windows) :
         windows[w].ln + 3 > Len(lines) /\ Len(windows[w].rows) < 7
    /\ \E w \in 1..Len(windows) : windows[w].ln - 3 < 1

\* C10: throughout the replay the stack size is the running balance of the
\* characters read plus the number of stray '}' among them, which is the
\* running balance minus the lowest running balance when that is below zero;
\* the final size is at least the final balance, and equal to it exactly when
\* the running balance never fell below zero; the stack is non-decreasing.
C10_ReplayStackSize ==
    (pc \in {"replay", "context", "done"} /\ balance > 0) =>
        LET S == Stream
            n == IF pc = "replay" THEN CharsRead(S) ELSE Len(S)
        IN  /\ Len(stack) = RunningBalance(S, n) + Cardinality(StrayClosers(S, n))
            /\ Len(stack) = RunningBalance(S, n) - Min(0, Lowest(S, n))
            /\ \A t \in 2..Len(stack) : stack[t - 1] <= stack[t]
            /\ ReplayOver =>
                 /\ Len(stack) >= balance
                 /\ (Len(stack) = balance) <=> (Lowest(S, Len(S)) >= 0)

C10_Witness ==
    /\ pc = "replay"
    /\ LET S == Stream
           n == CharsRead(S)
       IN  /\ n < Len(S)
           /\ StrayClosers(S, n) # {}
           /\ Len(stack) >= 1
           /\ RunningBalance(S, n) < Len(stack)
           /\ \E p \in 1..n : S[p].ch = "{" /\ Between(S, p, n) <= 0

(***************************************************************************)
(* Claim about tmp_patch_routeprefetch.py.                                 *)
(***************************************************************************)
\* Where pat first occurs in text (0 when it does not occur).
FirstAt(text, pat) ==
    LET n == Len(pat)
        at == {a \in 1..Len(text) : a + n - 1 <= Len(text)
                                     /\ \A t \in 1..n : text[a + t - 1] = pat[t]}
    IN  IF at = {} THEN 0 ELSE SetMin(at)

\* text with the first occurrence of pat, which is at `at`, replaced by rep.
Spliced(text, at, pat, rep) ==
    [t \in 1..(Len(text) - Len(pat) + Len(rep)) |->
        IF t < at THEN text[t]
        ELSE IF t < at + Len(rep) THEN rep[t - at + 1]
        ELSE text[t - Len(rep) + Len(pat)]]

C9_EveryRunEndsNeedleNotFound ==
    patch_pc = "exited" =>
        (patch_exit = "needle not found" /\ file = file_at_start /\ writes = 0)

====
